---- MODULE Spec2Model ----
(***************************************************************************)
(* Model of diffusionlib/conditioning_method/jax.py: the registry of       *)
(* conditioning methods (register_conditioning_method,                     *)
(* get_conditioning_method, the eleven decorated classes) and the guidance *)
(* score functions of the classes.                                         *)
(*                                                                         *)
(* Numbers are exact rationals <<numerator, denominator>>; floating-point  *)
(* rounding is not modelled.  Arrays are nested sequences.  The score      *)
(* network behind the SDE is a per-sample linear map, so that the           *)
(* automatic-differentiation primitives (vjp, jacrev, jacfwd, grad) have   *)
(* closed forms.                                                           *)
(***************************************************************************)
EXTENDS Integers, Sequences, FiniteSets, TLC

VARIABLES registry, registered, loaded, res, inst, call, prev, procs

vars == <<registry, registered, loaded, res, inst, call, prev, procs>>

(***************************************************************************)
(* Bounds of the model.                                                    *)
(***************************************************************************)
\* number of samples in a batch (shape[0])
BatchSize == 2
\* dimension of a signal and of an observation (shape[1], y.shape[1])
Dim == 2

(***************************************************************************)
(* Method names: the values of the enumeration ConditioningMethodName.     *)
(***************************************************************************)
DIFFUSION_POSTERIOR_SAMPLING == "diffusion_posterior_sampling"
DIFFUSION_POSTERIOR_SAMPLING_MOD == "diffusion_psoterior_sampling_mod"
PSEUDO_INVERSE_GUIDANCE == "pseduo_inverse_guidance"
VJP_GUIDANCE == "vjp_guidance"
VJP_GUIDANCE_ALT == "vjp_guidance_alt"
VJP_GUIDANCE_MASK == "vjp_guidance_mask"
VJP_GUIDANCE_DIAG == "vjp_guidance_diag"
JAC_REV_GUIDANCE == "jac_rev_guidance"
JAC_REV_GUIDANCE_DIAG == "jac_rev_guidance_diag"
JAC_FWD_GUIDANCE == "jac_fwd_guidance"
JAC_FWD_GUIDANCE_DIAG == "jac_fwd_guidance_diag"

ConditioningMethodName ==
    { DIFFUSION_POSTERIOR_SAMPLING, DIFFUSION_POSTERIOR_SAMPLING_MOD,
      PSEUDO_INVERSE_GUIDANCE, VJP_GUIDANCE, VJP_GUIDANCE_ALT,
      VJP_GUIDANCE_MASK, VJP_GUIDANCE_DIAG, JAC_REV_GUIDANCE,
      JAC_REV_GUIDANCE_DIAG, JAC_FWD_GUIDANCE, JAC_FWD_GUIDANCE_DIAG }

\* Names an implementer of a new variant may register; never bound by the
\* module itself.
ExtraNames == { "custom_guidance" }

Names == ConditioningMethodName \cup ExtraNames

(***************************************************************************)
(* The module's class statements in source order: each is decorated with   *)
(* register_conditioning_method(<name>), applied when the module loads.    *)
(***************************************************************************)
\* the class statements with VJP decorated with the name of VJPAlt
Decorated_duplicate_name ==
    << [name |-> DIFFUSION_POSTERIOR_SAMPLING,     cls |-> "DPS"],
       [name |-> DIFFUSION_POSTERIOR_SAMPLING_MOD, cls |-> "DPSMod"],
       [name |-> PSEUDO_INVERSE_GUIDANCE,          cls |-> "PIG"],
       [name |-> VJP_GUIDANCE_ALT,                 cls |-> "VJPAlt"],
       [name |-> VJP_GUIDANCE_ALT,                 cls |-> "VJP"],
       [name |-> VJP_GUIDANCE_MASK,                cls |-> "VJPMask"],
       [name |-> JAC_REV_GUIDANCE,                 cls |-> "JacRev"],
       [name |-> JAC_FWD_GUIDANCE,                 cls |-> "JacFwd"],
       [name |-> JAC_REV_GUIDANCE_DIAG,            cls |-> "JacRevDiagonal"],
       [name |-> VJP_GUIDANCE_DIAG,                cls |-> "VJPDiagonal"],
       [name |-> JAC_FWD_GUIDANCE_DIAG,            cls |-> "JacFwdDiagonal"] >>

Decorated ==
    << [name |-> DIFFUSION_POSTERIOR_SAMPLING,     cls |-> "DPS"],
       [name |-> DIFFUSION_POSTERIOR_SAMPLING_MOD, cls |-> "DPSMod"],
       [name |-> PSEUDO_INVERSE_GUIDANCE,          cls |-> "PIG"],
       [name |-> VJP_GUIDANCE_ALT,                 cls |-> "VJPAlt"],
       [name |-> VJP_GUIDANCE,                     cls |-> "VJP"],
       [name |-> VJP_GUIDANCE_MASK,                cls |-> "VJPMask"],
       [name |-> JAC_REV_GUIDANCE,                 cls |-> "JacRev"],
       [name |-> JAC_FWD_GUIDANCE,                 cls |-> "JacFwd"],
       [name |-> JAC_REV_GUIDANCE_DIAG,            cls |-> "JacRevDiagonal"],
       [name |-> VJP_GUIDANCE_DIAG,                cls |-> "VJPDiagonal"],
       [name |-> JAC_FWD_GUIDANCE_DIAG,            cls |-> "JacFwdDiagonal"] >>

Classes == { Decorated[i].cls : i \in 1..Len(Decorated) }

(***************************************************************************)
(* Values a caller can pass to the decorator besides the module's classes: *)
(* an ordinary class, a class whose truth value is False (its metaclass    *)
(* defines __bool__ or __len__), and None.                                 *)
(***************************************************************************)
PyNone == "None"
UserCtors == { "UserMethod", "FalsyMethod", PyNone }

\* bool(v) as Python evaluates it in `if v:`
Truthy(v) == v \notin { PyNone, "FalsyMethod" }

\* marks a key the dict does not hold
Absent == "<absent>"

\* __CONDITIONING_METHOD__.get(name, None)
DictGet(d, name) == IF d[name] = Absent THEN PyNone ELSE d[name]

\* __CONDITIONING_METHOD__ = {}
EmptyDict == [n \in Names |-> Absent]

Bound(d) == { n \in Names : d[n] # Absent }

(***************************************************************************)
(* Numbers (jax arrays' elements).  A finite number is the rational        *)
(* <<n, d>> in lowest terms with d > 0.  NonFinite stands for inf and nan, *)
(* the results of a division by zero and of every operation on them.       *)
(***************************************************************************)
\* the sequence f with its elements evaluated once
Array(f) == f \o <<>>

RECURSIVE GCD(_, _)
GCD(a, b) == IF b = 0 THEN a ELSE GCD(b, a % b)

Abs(n) == IF n < 0 THEN -n ELSE n

NonFinite == <<0, 0>>

IsFinite(q) == q[2] # 0

Rat(n, d) ==
    IF d = 0 THEN NonFinite
    ELSE LET g == GCD(Abs(n), Abs(d))
             sg == IF d < 0 THEN -1 ELSE 1
         IN  <<(sg * n) \div g, (sg * d) \div g>>

Zero == <<0, 1>>
One == <<1, 1>>

RAdd(p, q) ==
    IF IsFinite(p) /\ IsFinite(q)
    THEN LET g == GCD(p[2], q[2])
         IN  Rat(p[1] * (q[2] \div g) + q[1] * (p[2] \div g),
                 (p[2] \div g) * q[2])
    ELSE NonFinite

RNeg(p) == IF IsFinite(p) THEN <<-p[1], p[2]>> ELSE NonFinite

RSub(p, q) == RAdd(p, RNeg(q))

\* (a / b) * (c / d), cancelling before multiplying; b > 0 and d # 0
Frac(a, b, c, d) ==
    IF a = 0 \/ c = 0 THEN Rat(0, d)
    ELSE LET g == GCD(Abs(a), Abs(d))
             h == GCD(Abs(c), b)
         IN  Rat((a \div g) * (c \div h), (b \div h) * (d \div g))

RMul(p, q) ==
    IF IsFinite(p) /\ IsFinite(q)
    THEN Frac(p[1], p[2], q[1], q[2]) ELSE NonFinite

\* p / q; a division by zero gives inf or nan
RDiv(p, q) ==
    IF IsFinite(p) /\ IsFinite(q)
    THEN Frac(p[1], p[2], q[2], q[1]) ELSE NonFinite

RECURSIVE RSum(_)
RSum(s) == IF s = <<>> THEN Zero ELSE RAdd(Head(s), RSum(Tail(s)))

(***************************************************************************)
(* Arrays: a vector is a sequence of numbers, a matrix a sequence of rows, *)
(* a batch a sequence (over the batch axis) of vectors or matrices.        *)
(***************************************************************************)
VAdd(u, v) == Array([i \in 1..Len(u) |-> RAdd(u[i], v[i])])
VSub(u, v) == Array([i \in 1..Len(u) |-> RSub(u[i], v[i])])
VScale(c, v) == Array([i \in 1..Len(v) |-> RMul(c, v[i])])
Dot(u, v) == RSum(Array([i \in 1..Len(u) |-> RMul(u[i], v[i])]))

\* jnp.eye(n)
Eye(n) == Array([i \in 1..n |-> Array([j \in 1..n |-> IF i = j THEN One ELSE Zero])])

\* M.T
MT(M) == Array([j \in 1..Len(M[1]) |-> Array([i \in 1..Len(M) |-> M[i][j]])])

\* M @ v
MatVec(M, v) == Array([i \in 1..Len(M) |-> Dot(M[i], v)])

\* A @ B
MatMul(A, B) ==
    Array([i \in 1..Len(A) |-> Array([j \in 1..Len(B[1]) |->
        RSum(Array([k \in 1..Len(B) |-> RMul(A[i][k], B[k][j])]))])])

MAdd(A, B) == Array([i \in 1..Len(A) |-> VAdd(A[i], B[i])])
MScale(c, M) == Array([i \in 1..Len(M) |-> VScale(c, M[i])])

\* M without row i and column j
Minor(M, i, j) ==
    LET n == Len(M)
        keepR == Array([a \in 1..(n - 1) |-> IF a < i THEN a ELSE a + 1])
        keepC == Array([b \in 1..(n - 1) |-> IF b < j THEN b ELSE b + 1])
    IN  Array([a \in 1..(n - 1) |-> Array([b \in 1..(n - 1) |-> M[keepR[a]][keepC[b]]])])

RECURSIVE Det(_)
Det(M) ==
    IF Len(M) = 1 THEN M[1][1]
    ELSE RSum(Array([j \in 1..Len(M) |->
            RMul(IF j % 2 = 1 THEN M[1][j] ELSE RNeg(M[1][j]),
                 Det(Minor(M, 1, j)))]))

\* M with column j replaced by the vector b
WithColumn(M, j, b) ==
    Array([i \in 1..Len(M) |-> Array([k \in 1..Len(M) |-> IF k = j THEN b[i] ELSE M[i][k]])])

Singular(M) == Det(M) = Zero

\* the solution x of M x = b for a non-singular M
Solve(M, b) ==
    LET d == Det(M)
    IN  Array([j \in 1..Len(M) |-> RDiv(Det(WithColumn(M, j, b)), d)])

(***************************************************************************)
(* 3-d arrays and the array operations the guidance functions use.         *)
(***************************************************************************)
Shape3(a) == <<Len(a), Len(a[1]), Len(a[1][1])>>

\* jnp.transpose(a, axes) of a 3-d array: axis k of the result is axis
\* axes[k] of a  (axes are counted from 0 as in the code)
Transpose3(a, axes) ==
    LET sh == Shape3(a)
        pos == Array([m \in 1..3 |-> CHOOSE k \in 1..3 : axes[k] = m - 1])
    IN  Array([i \in 1..sh[axes[1] + 1] |-> Array([j \in 1..sh[axes[2] + 1] |->
          Array([k \in 1..sh[axes[3] + 1] |->
             LET ix == <<i, j, k>> IN a[ix[pos[1]]][ix[pos[2]]][ix[pos[3]]]])])])

\* jnp.tile(M, (n, 1, 1)): n copies of the matrix M along a new leading axis
Tile3(M, n) == Array([b \in 1..n |-> M])

\* jnp.diagonal(a, axis1=1, axis2=2) of a batch of square matrices
Diagonal(a) == Array([b \in 1..Len(a) |-> Array([i \in 1..Len(a[b]) |-> a[b][i][i]])])

\* (0,) + tuple(range(len(shape) + 1)[2:]) + (1,)
AxesOf(shape) ==
    <<0>> \o Array([k \in 1..(Len(shape) - 1) |-> k + 1]) \o <<1>>

(***************************************************************************)
(* diffusionlib.util.misc: the batched linear-algebra helpers.             *)
(***************************************************************************)
\* vmap(lambda B: A @ B)(B) for a batch B of matrices
batch_matmul_A(A, B) == Array([b \in 1..Len(B) |-> MatMul(A, B[b])])

\* vmap(lambda B: A @ B)(B) for a batch B of vectors
batch_matvec_A(A, B) == Array([b \in 1..Len(B) |-> MatVec(A, B[b])])

\* vmap(lambda A, B: A @ B)(A, B) for a batch A of matrices, B of vectors
batch_matmul(A, B) == Array([b \in 1..Len(B) |-> MatVec(A[b], B[b])])

\* vmap(lambda a, b: a * b)(a, b): elementwise scale of each sample
batch_mul(a, c) ==
    Array([b \in 1..Len(a) |-> Array([i \in 1..Len(a[b]) |-> RMul(a[b][i], c[b][i])])])

\* the outcome of a solve: the solution, or the linear-algebra error
SolveOk(f) == [err |-> FALSE, f |-> f]
SolveError == [err |-> TRUE, f |-> <<>>]

\* one independent solve per sample; fails when a matrix is singular
batch_linalg_solve(A, b) ==
    IF \E k \in 1..Len(A) : Singular(A[k]) THEN SolveError
    ELSE SolveOk(Array([k \in 1..Len(b) |-> Solve(A[k], b[k])]))

\* the same matrix A for every sample
batch_linalg_solve_A(A, b) ==
    IF Singular(A) THEN SolveError
    ELSE SolveOk(Array([k \in 1..Len(b) |-> Solve(A, b[k])]))

(***************************************************************************)
(* The SDE handle.  A handle is [est, score]:                              *)
(*   est   "id"   the posterior-mean estimate is x0 = x                    *)
(*         "sym"  x0 = A x / (1 + t) for a symmetric matrix A              *)
(*         "asym" x0 = A x / (1 + t) for a matrix A that is not symmetric  *)
(*   score "zero" the score is s = 0;  "lin"  s = -t x                     *)
(* Each sample is estimated from its own x[b] and t[b].                    *)
(***************************************************************************)
Half == Rat(1, 2)

EstMatrix(sde) ==
    Array([i \in 1..Dim |-> Array([j \in 1..Dim |->
        IF i = j THEN One
        ELSE IF sde.est = "sym" THEN Half
        ELSE IF sde.est = "asym" /\ j = i + 1 THEN Half
        ELSE Zero])])

\* d x0[b] / d x[b], the Jacobian of the posterior-mean estimate of a sample
JacX0(sde, tb) ==
    IF sde.est = "id" THEN Eye(Dim)
    ELSE MScale(RDiv(One, RAdd(One, tb)), EstMatrix(sde))

\* the score of one sample
Score(sde, xb, tb) ==
    IF sde.score = "zero" THEN Array([i \in 1..Len(xb) |-> Zero])
    ELSE VScale(RNeg(tb), xb)

\* sde.ratio(t)
ratio(tb) == RMul(Rat(2, 1), tb)

\* sde.r2(t, data_variance)
r2(tb, data_variance) ==
    RDiv(RMul(tb, data_variance), RAdd(tb, data_variance))

\* sde.get_estimate_x_0_vmap(h)(x[b], t[b]) for the linear map h(x) = H x:
\* (h(x0), (s, x0)) of one sample
get_estimate_x_0_vmap(sde, H, xb, tb) ==
    LET x0 == MatVec(JacX0(sde, tb), xb)
    IN  [h_x_0 |-> MatVec(H, x0), s |-> Score(sde, xb, tb), x_0 |-> x0]

\* sde.get_estimate_x_0(h)(x, t): the same, sample by sample over the batch
get_estimate_x_0(sde, H, x, t) ==
    LET e == Array([b \in 1..Len(x) |-> get_estimate_x_0_vmap(sde, H, x[b], t[b])])
    IN  [h_x_0 |-> Array([b \in 1..Len(x) |-> e[b].h_x_0]),
         s     |-> Array([b \in 1..Len(x) |-> e[b].s])]

(***************************************************************************)
(* jax: the differentiation primitives, on the estimate of the handle.     *)
(***************************************************************************)
\* jacrev / jacfwd of x[b] -> h(x0[b]): the (d_y x d_x) Jacobian H J
jac(sde, H, xb, tb) == MatMul(H, JacX0(sde, tb))

\* the function vjp(lambda x: estimate_h_x_0(x, t), x) returns, applied to a
\* cotangent c of the shape of h(x0): row b is (H J_b)^T c[b]
vjp_fn(sde, H, t, c) ==
    Array([b \in 1..Len(c) |-> MatVec(MT(jac(sde, H, <<>>, t[b])), c[b])])

(***************************************************************************)
(* Outcomes of a call of a guidance score function.  A returned score is   *)
(* the array  gs + irr * sqrt(rad)  (irr is zero and rad is 1 for every    *)
(* class but DPS, whose score holds the reciprocal of a norm).             *)
(***************************************************************************)
ZeroLike(x) == Array([b \in 1..Len(x) |-> Array([i \in 1..Len(x[b]) |-> Zero])])

Returned(gs) == [outcome |-> "ok", gs |-> gs, irr |-> ZeroLike(gs), rad |-> 1]

Raised(error) == [outcome |-> error, gs |-> <<>>, irr |-> <<>>, rad |-> 1]

LinAlgError == "LinAlgError"

BAdd(a, c) == Array([b \in 1..Len(a) |-> VAdd(a[b], c[b])])
BSub(a, c) == Array([b \in 1..Len(a) |-> VSub(a[b], c[b])])

\* self.noise_std**2
Sq(q) == RMul(q, q)

(***************************************************************************)
(* class VJP                                                               *)
(***************************************************************************)
VJP_init(args) ==
    [cls |-> "VJP", sde |-> args[1], H |-> args[2], y |-> args[3],
     noise_std |-> args[4], shape |-> args[5]]

\* the same with the noise standard deviation not squared in C_yy
VJP_guidance_score_unsquared(self, x, t) ==
    LET I_x == Eye(Len(x[1]))
        est == get_estimate_x_0(self.sde, I_x, x, t)
        batch_H == Transpose3(Tile3(self.H, self.shape[1]), <<1, 0, 2>>)
        H_grad_x_0 == Array([i \in 1..Len(batch_H) |->
                          vjp_fn(self.sde, I_x, t, batch_H[i])])
        HgT == Transpose3(H_grad_x_0, <<1, 2, 0>>)
        HJH == batch_matmul_A(self.H, HgT)
        C_yy == Array([b \in 1..Len(x) |->
                   MAdd(MScale(ratio(t[1]), HJH[b]),
                        MScale(self.noise_std, Eye(Len(self.y[1]))))])
        innovation == BSub(self.y, batch_matvec_A(self.H, est.h_x_0))
        f == batch_linalg_solve(C_yy, innovation)
    IN  IF f.err THEN Raised(LinAlgError)
        ELSE Returned(BAdd(est.s, batch_matmul(HgT, f.f)))

\* the same with the covariance regularized when a sample's C_yy is singular
VJP_guidance_score_regularized(self, x, t) ==
    LET I_x == Eye(Len(x[1]))
        est == get_estimate_x_0(self.sde, I_x, x, t)
        batch_H == Transpose3(Tile3(self.H, self.shape[1]), <<1, 0, 2>>)
        H_grad_x_0 == Array([i \in 1..Len(batch_H) |->
                          vjp_fn(self.sde, I_x, t, batch_H[i])])
        HgT == Transpose3(H_grad_x_0, <<1, 2, 0>>)
        HJH == batch_matmul_A(self.H, HgT)
        C_0 == Array([b \in 1..Len(x) |->
                   MAdd(MScale(ratio(t[1]), HJH[b]),
                        MScale(Sq(self.noise_std), Eye(Len(self.y[1]))))])
        C_yy == Array([b \in 1..Len(x) |->
                   IF Singular(C_0[b])
                   THEN MAdd(C_0[b], Eye(Len(self.y[1]))) ELSE C_0[b]])
        innovation == BSub(self.y, batch_matvec_A(self.H, est.h_x_0))
        f == batch_linalg_solve(C_yy, innovation)
    IN  IF f.err THEN Raised(LinAlgError)
        ELSE Returned(BAdd(est.s, batch_matmul(HgT, f.f)))

VJP_guidance_score(self, x, t) ==
    LET I_x == Eye(Len(x[1]))
        \* x_0, vjp_x_0, (s, _) = vjp(lambda x: estimate_x_0(x, t), x, ...)
        est == get_estimate_x_0(self.sde, I_x, x, t)
        batch_H == Transpose3(Tile3(self.H, self.shape[1]), <<1, 0, 2>>)
        \* vmap(vjp_x_0)(batch_H)[0], of shape (d_y, batch, d_x)
        H_grad_x_0 == Array([i \in 1..Len(batch_H) |->
                          vjp_fn(self.sde, I_x, t, batch_H[i])])
        HgT == Transpose3(H_grad_x_0, <<1, 2, 0>>)
        HJH == batch_matmul_A(self.H, HgT)
        C_yy == Array([b \in 1..Len(x) |->
                   MAdd(MScale(ratio(t[1]), HJH[b]),
                        MScale(Sq(self.noise_std), Eye(Len(self.y[1]))))])
        innovation == BSub(self.y, batch_matvec_A(self.H, est.h_x_0))
        f == batch_linalg_solve(C_yy, innovation)
    IN  IF f.err THEN Raised(LinAlgError)
        ELSE Returned(BAdd(est.s, batch_matmul(HgT, f.f)))

(***************************************************************************)
(* class VJPAlt                                                            *)
(***************************************************************************)
VJPAlt_init(args) ==
    [cls |-> "VJPAlt", sde |-> args[1], H |-> args[2], y |-> args[3],
     noise_std |-> args[4], shape |-> args[5]]

VJPAlt_guidance_score(self, x, t) ==
    LET I_x == Eye(Len(x[1]))
        est == get_estimate_x_0(self.sde, I_x, x, t)
        \* axes = (1, 0) + tuple(range(len(shape) + 1)[2:])
        axes == <<1, 0>> \o Array([k \in 1..(Len(self.shape) - 1) |-> k + 1])
        batch_H == Transpose3(Tile3(self.H, self.shape[1]), axes)
        H_grad_x_0 == Array([i \in 1..Len(batch_H) |->
                          vjp_fn(self.sde, I_x, t, batch_H[i])])
        HJH == batch_matmul_A(self.H, Transpose3(H_grad_x_0, <<1, 2, 0>>))
        C_yy == Array([b \in 1..Len(x) |->
                   MAdd(MScale(ratio(t[1]), HJH[b]),
                        MScale(Sq(self.noise_std), Eye(Len(self.y[1]))))])
        innovation == BSub(self.y, batch_matvec_A(self.H, est.h_x_0))
        f == batch_linalg_solve(C_yy, innovation)
    IN  IF f.err THEN Raised(LinAlgError)
        ELSE Returned(BAdd(est.s,
                 vjp_fn(self.sde, I_x, t, batch_matvec_A(MT(self.H), f.f))))

(***************************************************************************)
(* class JacRev                                                            *)
(***************************************************************************)
JacRev_init(args) ==
    [cls |-> "JacRev", sde |-> args[1], observation_map |-> args[2],
     y |-> args[3], noise_std |-> args[4], shape |-> args[5]]

\* vmap(vmap(observation_map)) on a (batch, d_y, d_x) array
batch_batch_observation_map(H, a) ==
    Array([b \in 1..Len(a) |-> Array([i \in 1..Len(a[b]) |-> MatVec(H, a[b][i])])])

JacRev_guidance_score(self, x, t) ==
    LET H == self.observation_map
        est == get_estimate_x_0(self.sde, H, x, t)
        axes == AxesOf(self.shape)
        \* jacrev_vmap(x, t), of shape (batch, d_y, d_x)
        grad_H_x_0 == Array([b \in 1..Len(x) |-> jac(self.sde, H, x[b], t[b])])
        H_grad_H_x_0 == batch_batch_observation_map(H, grad_H_x_0)
        C_yy == Array([b \in 1..Len(x) |->
                   MAdd(MScale(ratio(t[1]), H_grad_H_x_0[b]),
                        MScale(Sq(self.noise_std), Eye(Len(self.y[1]))))])
        innovation == BSub(self.y, est.h_x_0)
        f == batch_linalg_solve(C_yy, innovation)
    IN  IF f.err THEN Raised(LinAlgError)
        ELSE Returned(BAdd(est.s,
                 batch_matmul(Transpose3(grad_H_x_0, axes), f.f)))

(***************************************************************************)
(* class JacFwd                                                            *)
(***************************************************************************)
JacFwd_init(args) ==
    [cls |-> "JacFwd", sde |-> args[1], observation_map |-> args[2],
     y |-> args[3], noise_std |-> args[4], shape |-> args[5]]

\* the same with the covariance not scaled by sde.ratio
JacFwd_guidance_score_no_ratio(self, x, t) ==
    LET H == self.observation_map
        est == get_estimate_x_0(self.sde, H, x, t)
        axes == AxesOf(self.shape)
        H_grad_x_0 == Array([b \in 1..Len(x) |-> jac(self.sde, H, x[b], t[b])])
        H_grad_H_x_0 == batch_batch_observation_map(H, H_grad_x_0)
        C_yy == Array([b \in 1..Len(x) |->
                   MAdd(H_grad_H_x_0[b],
                        MScale(Sq(self.noise_std), Eye(Len(self.y[1]))))])
        innovation == BSub(self.y, est.h_x_0)
        f == batch_linalg_solve(C_yy, innovation)
    IN  IF f.err THEN Raised(LinAlgError)
        ELSE Returned(BAdd(est.s,
                 batch_matmul(Transpose3(H_grad_x_0, axes), f.f)))

JacFwd_guidance_score(self, x, t) ==
    LET H == self.observation_map
        est == get_estimate_x_0(self.sde, H, x, t)
        axes == AxesOf(self.shape)
        \* jacfwd_vmap(x, t), of shape (batch, d_y, d_x)
        H_grad_x_0 == Array([b \in 1..Len(x) |-> jac(self.sde, H, x[b], t[b])])
        H_grad_H_x_0 == batch_batch_observation_map(H, H_grad_x_0)
        C_yy == Array([b \in 1..Len(x) |->
                   MAdd(MScale(ratio(t[1]), H_grad_H_x_0[b]),
                        MScale(Sq(self.noise_std), Eye(Len(self.y[1]))))])
        innovation == BSub(self.y, est.h_x_0)
        f == batch_linalg_solve(C_yy, innovation)
    IN  IF f.err THEN Raised(LinAlgError)
        ELSE Returned(BAdd(est.s,
                 batch_matmul(Transpose3(H_grad_x_0, axes), f.f)))

(***************************************************************************)
(* class DPS                                                               *)
(***************************************************************************)
\* n = k * k * m with m free of squares: <<k, m>>, searching factors from c
RECURSIVE SquarePart(_, _)
SquarePart(n, c) ==
    IF c * c > n THEN <<1, n>>
    ELSE IF n % (c * c) = 0
         THEN LET r == SquarePart(n \div (c * c), c) IN <<c * r[1], r[2]>>
         ELSE SquarePart(n, c + 1)

\* scale=0.4 in DPS.__init__
DefaultScale == Rat(4, 10)

DPS_init(args) ==
    [cls |-> "DPS", sde |-> args[1], observation_map |-> args[2],
     y |-> args[3],
     scale |-> IF Len(args) >= 4 THEN args[4] ELSE DefaultScale]

\* jnp.linalg.norm(innovation) squared: the sum over the whole array
SumSquares(a) == RSum(Array([b \in 1..Len(a) |-> Dot(a[b], a[b])]))

\* 1 / sqrt(Q) for a rational Q = p / q > 0, as <<c, m>> with
\* 1 / sqrt(Q) = c * sqrt(m), c rational and m an integer free of squares:
\* with p = kp^2 mp and q = kq^2 mq it is (kq / (kp mp)) sqrt(mp mq)
InvSqrt(Q) ==
    LET P == SquarePart(Q[1], 2)
        D == SquarePart(Q[2], 2)
    IN  <<Rat(D[1], P[1] * P[2]), P[2] * D[2]>>

\* the likelihood term added to the score instead of subtracted
DPS_guidance_score_added(self, x, t) ==
    LET H == self.observation_map
        est == get_estimate_x_0(self.sde, H, x, t)
        innovation == BSub(self.y, est.h_x_0)
        Q == SumSquares(innovation)
        r == InvSqrt(Q)
        w == vjp_fn(self.sde, H, t,
                    Array([b \in 1..Len(x) |-> VScale(RNeg(r[1]), innovation[b])]))
        step == Array([b \in 1..Len(x) |-> VScale(self.scale, w[b])])
    IN  IF Q = Zero
        THEN Returned(Array([b \in 1..Len(x) |-> Array([i \in 1..Len(x[b]) |-> NonFinite])]))
        ELSE IF r[2] = 1 THEN Returned(BAdd(est.s, step))
        ELSE [outcome |-> "ok", gs |-> est.s, irr |-> step, rad |-> r[2]]

DPS_guidance_score(self, x, t) ==
    LET H == self.observation_map
        \* l2_norm(x, t): h_x_0, (s, _) = estimate_h_x_0(x, t)
        est == get_estimate_x_0(self.sde, H, x, t)
        innovation == BSub(self.y, est.h_x_0)
        \* the norm is sqrt(Q) for the rational Q = p / q, and
        \* 1 / sqrt(Q) = r[1] * sqrt(r[2])
        Q == SumSquares(innovation)
        r == InvSqrt(Q)
        \* ls = grad(l2_norm)(x, t): the vjp of the estimate applied to
        \* d norm / d h_x_0 = -innovation / norm; w is the coefficient of
        \* sqrt(r[2]) in ls
        w == vjp_fn(self.sde, H, t,
                    Array([b \in 1..Len(x) |-> VScale(RNeg(r[1]), innovation[b])]))
        step == Array([b \in 1..Len(x) |-> VScale(RNeg(self.scale), w[b])])
    IN  IF Q = Zero
        \* the gradient of the norm at 0 is 0 / 0
        THEN Returned(Array([b \in 1..Len(x) |-> Array([i \in 1..Len(x[b]) |-> NonFinite])]))
        ELSE IF r[2] = 1 THEN Returned(BAdd(est.s, step))
        ELSE [outcome |-> "ok", gs |-> est.s, irr |-> step, rad |-> r[2]]

(***************************************************************************)
(* class DPSMod                                                            *)
(***************************************************************************)
DPSMod_init(args) ==
    [cls |-> "DPSMod", sde |-> args[1], observation_map |-> args[2],
     y |-> args[3], noise_std |-> args[4]]

\* a / c elementwise for a scalar c
BDivScalar(a, c) ==
    Array([b \in 1..Len(a) |-> Array([i \in 1..Len(a[b]) |-> RDiv(a[b][i], c)])])

\* a / c elementwise
BDiv(a, c) ==
    Array([b \in 1..Len(a) |-> Array([i \in 1..Len(a[b]) |-> RDiv(a[b][i], c[b][i])])])

DPSMod_guidance_score(self, x, t) ==
    LET H == self.observation_map
        est == get_estimate_x_0(self.sde, H, x, t)
        innovation == BSub(self.y, est.h_x_0)
        C_yy == Sq(self.noise_std)
        ls == vjp_fn(self.sde, H, t, BDivScalar(innovation, C_yy))
    IN  Returned(BAdd(est.s, ls))

(***************************************************************************)
(* class PIG.  An array argument (HHT) is [shape, data].                   *)
(***************************************************************************)
\* HHT=jnp.array([1.0]) in PIG.__init__
DefaultHHT == [shape |-> <<1>>, data |-> <<One>>]

PIG_init(args) ==
    [cls |-> "PIG", sde |-> args[1], observation_map |-> args[2],
     y |-> args[3], noise_std |-> args[4],
     HHT |-> IF Len(args) >= 5 THEN args[5] ELSE DefaultHHT]

UnboundLocalError == "UnboundLocalError"

PIG_guidance_score(self, x, t) ==
    LET H == self.observation_map
        est == get_estimate_x_0(self.sde, H, x, t)
        innovation == BSub(self.y, est.h_x_0)
        d_y == Len(self.y[1])
    IN  IF self.HHT.shape = <<d_y, d_y>>
        THEN LET C_yy == MAdd(MScale(r2(t[1], One), self.HHT.data),
                              MScale(Sq(self.noise_std), Eye(d_y)))
                 f == batch_linalg_solve_A(C_yy, innovation)
             IN  IF f.err THEN Raised(LinAlgError)
                 ELSE Returned(BAdd(est.s, vjp_fn(self.sde, H, t, f.f)))
        ELSE IF self.HHT.shape = <<1>>
        THEN LET C_yy == RAdd(RMul(r2(t[1], One), self.HHT.data[1]),
                              Sq(self.noise_std))
                 f == BDivScalar(innovation, C_yy)
             IN  Returned(BAdd(est.s, vjp_fn(self.sde, H, t, f)))
        \* neither branch binds f: the read of f in the vjp raises
        ELSE Raised(UnboundLocalError)

(***************************************************************************)
(* class VJPMask                                                           *)
(***************************************************************************)
VJPMask_init(args) ==
    [cls |-> "VJPMask", sde |-> args[1], observation_map |-> args[2],
     y |-> args[3], noise_std |-> args[4], shape |-> args[5]]

VJPMask_guidance_score(self, x, t) ==
    LET H == self.observation_map
        est == get_estimate_x_0(self.sde, H, x, t)
        ones == Array([b \in 1..Len(x) |-> Array([i \in 1..Len(x[b]) |-> One])])
        diag == batch_matvec_A(H,
                   vjp_fn(self.sde, H, t, batch_matvec_A(H, ones)))
        C_yy == Array([b \in 1..Len(x) |-> Array([i \in 1..Len(diag[b]) |->
                   RAdd(RMul(ratio(t[1]), diag[b][i]), Sq(self.noise_std))])])
        innovation == BSub(self.y, est.h_x_0)
        ls == vjp_fn(self.sde, H, t, BDiv(innovation, C_yy))
    IN  Returned(BAdd(est.s, ls))

(***************************************************************************)
(* classes JacRevDiagonal and JacFwdDiagonal                               *)
(***************************************************************************)
JacRevDiagonal_init(args) ==
    [cls |-> "JacRevDiagonal", sde |-> args[1], observation_map |-> args[2],
     y |-> args[3], noise_std |-> args[4], shape |-> args[5]]

Reciprocal(c) ==
    Array([b \in 1..Len(c) |-> Array([i \in 1..Len(c[b]) |-> RDiv(One, c[b][i])])])

JacRevDiagonal_guidance_score(self, x, t) ==
    LET H == self.observation_map
        est == get_estimate_x_0(self.sde, H, x, t)
        axes == AxesOf(self.shape)
        \* vec_jacrev(x, t[0]): every sample's Jacobian is taken at t[0]
        grad_H_x_0 == Array([b \in 1..Len(x) |-> jac(self.sde, H, x[b], t[1])])
        H_grad_H_x_0 == batch_batch_observation_map(H, grad_H_x_0)
        dg == Diagonal(H_grad_H_x_0)
        C_yy == Array([b \in 1..Len(x) |-> Array([i \in 1..Len(dg[b]) |->
                   RAdd(RMul(ratio(t[1]), dg[b][i]), Sq(self.noise_std))])])
        innovation == BSub(self.y, est.h_x_0)
        f == batch_mul(innovation, Reciprocal(C_yy))
    IN  Returned(BAdd(est.s, batch_matmul(Transpose3(grad_H_x_0, axes), f)))

JacFwdDiagonal_init(args) ==
    [cls |-> "JacFwdDiagonal", sde |-> args[1], observation_map |-> args[2],
     y |-> args[3], noise_std |-> args[4], shape |-> args[5]]

JacFwdDiagonal_guidance_score(self, x, t) ==
    LET H == self.observation_map
        est == get_estimate_x_0(self.sde, H, x, t)
        axes == AxesOf(self.shape)
        \* vec_jacfwd(x, t[0]): every sample's Jacobian is taken at t[0]
        H_grad_x_0 == Array([b \in 1..Len(x) |-> jac(self.sde, H, x[b], t[1])])
        H_grad_H_x_0 == batch_batch_observation_map(H, H_grad_x_0)
        dg == Diagonal(H_grad_H_x_0)
        C_yy == Array([b \in 1..Len(x) |-> Array([i \in 1..Len(dg[b]) |->
                   RAdd(RMul(ratio(t[1]), dg[b][i]), Sq(self.noise_std))])])
        f == batch_mul(BSub(self.y, est.h_x_0), Reciprocal(C_yy))
    IN  Returned(BAdd(est.s, batch_matmul(Transpose3(H_grad_x_0, axes), f)))

(***************************************************************************)
(* class VJPDiagonal                                                       *)
(***************************************************************************)
VJPDiagonal_init(args) ==
    [cls |-> "VJPDiagonal", sde |-> args[1], H |-> args[2], y |-> args[3],
     noise_std |-> args[4], shape |-> args[5]]

\* vmap(lambda b: a * b)(b): the matrix a times each sample, elementwise
batch_mul_A(a, B) ==
    Array([b \in 1..Len(B) |-> Array([i \in 1..Len(a) |-> Array([j \in 1..Len(a[i]) |->
        RMul(a[i][j], B[b][i][j])])])])

VJPDiagonal_guidance_score(self, x, t) ==
    LET I_x == Eye(Len(x[1]))
        est == get_estimate_x_0(self.sde, I_x, x, t)
        batch_H == Transpose3(Tile3(self.H, self.shape[1]), <<1, 0, 2>>)
        H_grad_x_0 == Array([i \in 1..Len(batch_H) |->
                          vjp_fn(self.sde, I_x, t, batch_H[i])])
        prod == batch_mul_A(self.H, Transpose3(H_grad_x_0, <<1, 0, 2>>))
        \* jnp.sum(..., axis=-1)
        diag_H_grad_H_x_0 ==
            Array([b \in 1..Len(prod) |-> Array([i \in 1..Len(prod[b]) |-> RSum(prod[b][i])])])
        C_yy == Array([b \in 1..Len(x) |-> Array([i \in 1..Len(diag_H_grad_H_x_0[b]) |->
                   RAdd(RMul(ratio(t[1]), diag_H_grad_H_x_0[b][i]),
                        Sq(self.noise_std))])])
        innovation == BSub(self.y, batch_matvec_A(self.H, est.h_x_0))
        f == batch_mul(innovation, Reciprocal(C_yy))
    IN  Returned(BAdd(est.s,
            vjp_fn(self.sde, I_x, t, batch_matvec_A(MT(self.H), f))))

(***************************************************************************)
(* The registry __CONDITIONING_METHOD__ and its two functions.             *)
(***************************************************************************)
AlreadyRegistered == "NameError: already registered"
NotDefined == "NameError: not defined"
TypeError == "TypeError"

\* the value of a call that returned nothing (it raised)
NoInst == [cls |-> "<none>"]
\* no constructor was called
NoCtor == "<none>"

\* register_conditioning_method(name)(cls): the dict after the call, and
\* the error raised, if any
register_conditioning_method(d, name, cls) ==
    IF Truthy(DictGet(d, name))
    THEN [error |-> AlreadyRegistered, d |-> d]
    ELSE [error |-> "", d |-> [d EXCEPT ![name] = cls]]

\* the numbers of positional arguments cls.__init__ accepts besides self
Arity(cls) ==
    CASE cls = "DPS" -> {3, 4}
      [] cls = "DPSMod" -> {4}
      [] cls = "PIG" -> {4, 5}
      [] cls \in Classes -> {5}
      [] OTHER -> {0, 1, 2, 3, 4, 5}

\* cls(*args) with matching arguments
New(cls, args) ==
    CASE cls = "DPS" -> DPS_init(args)
      [] cls = "DPSMod" -> DPSMod_init(args)
      [] cls = "PIG" -> PIG_init(args)
      [] cls = "VJPAlt" -> VJPAlt_init(args)
      [] cls = "VJP" -> VJP_init(args)
      [] cls = "VJPMask" -> VJPMask_init(args)
      [] cls = "JacRev" -> JacRev_init(args)
      [] cls = "JacFwd" -> JacFwd_init(args)
      [] cls = "JacRevDiagonal" -> JacRevDiagonal_init(args)
      [] cls = "VJPDiagonal" -> VJPDiagonal_init(args)
      [] cls = "JacFwdDiagonal" -> JacFwdDiagonal_init(args)
      [] OTHER -> [cls |-> cls, args |-> args]

\* the call d[name](*args)
Construct(cls, args) ==
    IF Len(args) \in Arity(cls)
    THEN [error |-> "", ctor |-> cls, ret |-> New(cls, args)]
    ELSE [error |-> TypeError, ctor |-> cls, ret |-> NoInst]

\* a lookup that forgets the binding (dict.pop in place of dict.get)
get_popping(d, name, args) ==
    IF DictGet(d, name) = PyNone
    THEN [error |-> NotDefined, ctor |-> NoCtor, ret |-> NoInst, d |-> d]
    ELSE Construct(d[name], args) @@ [d |-> [d EXCEPT ![name] = Absent]]

\* an unknown name answered with an instance of the first class
get_defaulting(d, name, args) ==
    IF DictGet(d, name) = PyNone
    THEN Construct("DPS", args) @@ [d |-> d]
    ELSE Construct(d[name], args) @@ [d |-> d]

\* get_conditioning_method(name, *args): the error raised or the instance
\* returned, the constructor called, and the dict after the call
get_conditioning_method(d, name, args) ==
    IF DictGet(d, name) = PyNone
    THEN [error |-> NotDefined, ctor |-> NoCtor, ret |-> NoInst, d |-> d]
    ELSE Construct(d[name], args) @@ [d |-> d]

\* the two reads of the dict get_conditioning_method makes, one at a time.
\* The test `__CONDITIONING_METHOD__.get(name, None) is None`:
get_is_none(d, name) == DictGet(d, name) = PyNone

KeyError == "KeyError"

\* the call with the binding removed by the lookup
get_call_popping(d, name, args) ==
    IF d[name] = Absent
    THEN [error |-> KeyError, ctor |-> NoCtor, ret |-> NoInst, d |-> d]
    ELSE Construct(d[name], args) @@ [d |-> [d EXCEPT ![name] = Absent]]

\* the statement `return __CONDITIONING_METHOD__[name](*args, **kwargs)`
get_call(d, name, args) ==
    IF d[name] = Absent
    THEN [error |-> KeyError, ctor |-> NoCtor, ret |-> NoInst, d |-> d]
    ELSE Construct(d[name], args) @@ [d |-> d]

\* self.get_guidance_score_func()(x, t) for an instance of a module class
Guidance(self, x, t) ==
    CASE self.cls = "DPS" -> DPS_guidance_score(self, x, t)
      [] self.cls = "DPSMod" -> DPSMod_guidance_score(self, x, t)
      [] self.cls = "PIG" -> PIG_guidance_score(self, x, t)
      [] self.cls = "VJPAlt" -> VJPAlt_guidance_score(self, x, t)
      [] self.cls = "VJP" -> VJP_guidance_score(self, x, t)
      [] self.cls = "VJPMask" -> VJPMask_guidance_score(self, x, t)
      [] self.cls = "JacRev" -> JacRev_guidance_score(self, x, t)
      [] self.cls = "JacFwd" -> JacFwd_guidance_score(self, x, t)
      [] self.cls = "JacRevDiagonal" -> JacRevDiagonal_guidance_score(self, x, t)
      [] self.cls = "VJPDiagonal" -> VJPDiagonal_guidance_score(self, x, t)
      [] self.cls = "JacFwdDiagonal" -> JacFwdDiagonal_guidance_score(self, x, t)

(***************************************************************************)
(* Inputs of the model: construction arguments and sampler batches.        *)
(***************************************************************************)
\* calls of the guidance function the sampler makes on one instance
MaxCalls == 2

SDEs == { [est |-> "id", score |-> "zero"],
          [est |-> "sym", score |-> "lin"],
          [est |-> "asym", score |-> "lin"] }

\* the coordinate mask that drops the last coordinate
MaskLast(n) ==
    Array([i \in 1..n |-> Array([j \in 1..n |-> IF i = j /\ i < n THEN One ELSE Zero])])

\* observation maps h(x) = H x, given by their matrix
ObservationMaps == { Eye(Dim), MaskLast(Dim) }

NoiseStds == { Zero, Rat(1, 10) }

Shape == <<BatchSize, Dim>>

\* the measurement: the same constant vector for every sample
Y == Array([b \in 1..BatchSize |-> Array([i \in 1..Dim |-> One])])

HHTs == { [shape |-> <<Dim, Dim>>, data |-> Eye(Dim)],
          [shape |-> <<Dim, Dim>>, data |-> MaskLast(Dim)],
          [shape |-> <<Dim + 1>>, data |-> Array([i \in 1..(Dim + 1) |-> One])] }

\* the argument lists get is called with for a class
ArgSets(cls) ==
    LET base == { <<sde, H, Y>> : sde \in SDEs, H \in ObservationMaps }
        with4 == { a \o <<n>> : a \in base, n \in NoiseStds }
    IN  CASE cls = "DPS" -> base \cup { a \o <<One>> : a \in base }
          [] cls = "DPSMod" -> with4
          [] cls = "PIG" -> with4 \cup { a \o <<h>> : a \in with4, h \in HHTs }
          [] OTHER -> { a \o <<Shape>> : a \in with4 }

SampleVec(k) == Array([i \in 1..Dim |-> Rat(IF k = 1 THEN i - 1 ELSE 2 - i, 1)])

\* batches x: the first sample varies, the other samples are the same
XBatches ==
    { Array([b \in 1..BatchSize |-> SampleVec(IF b = 1 THEN k ELSE 2)]) :
        k \in 1..2 }

Times == { Half, One }

\* batches t of shape (batch, 1), the unit axis dropped
TBatches ==
    { Array([b \in 1..BatchSize |-> IF b = 1 THEN t1 ELSE One]) :
        t1 \in Times }

(***************************************************************************)
(* State.                                                                  *)
(*   registry  __CONDITIONING_METHOD__                                     *)
(*   registered  the <<name, constructor>> pairs of the register calls that *)
(*             returned without an error, so far                           *)
(*   loaded    class statements of the module executed so far; -1 when the *)
(*             import failed                                               *)
(*   res       the last register or get call: its arguments, the binding   *)
(*             of the name before the call, the error raised and the       *)
(*             constructor called                                          *)
(*   inst      the value the last get returned                              *)
(*   call      the sampler's current batch and the guidance call's outcome *)
(*   prev      the call before it                                          *)
(*   procs     the processes that use the populated registry concurrently: *)
(*             each one's position in get_conditioning_method, what it     *)
(*             read, and the outcome of its get and guidance calls         *)
(***************************************************************************)
Pending == Raised("<pending>")

\* processes that call get_conditioning_method concurrently
NumProcs == 2

Procs == 1..NumProcs

\* a process outside get_conditioning_method, holding no instance
Idle ==
    [pc |-> "idle", name |-> "", args |-> <<>>, error |-> "",
     ctor |-> NoCtor, ret |-> NoInst, out |-> Raised("<no call>")]

NoProcs == [p \in Procs |-> Idle]
NoCall == [n |-> 0, out |-> Raised("<no call>")]

Result(op, name, args, old, error, ctor) ==
    [op |-> op, name |-> name, args |-> args, old |-> old,
     error |-> error, ctor |-> ctor]

Init ==
    /\ registry = EmptyDict
    /\ registered = {}
    /\ loaded = 0
    /\ res = Result("import", "", <<>>, Absent, "", NoCtor)
    /\ inst = NoInst
    /\ call = NoCall
    /\ prev = NoCall
    /\ procs = NoProcs

\* the next decorated class statement of the module executes
LoadStep ==
    /\ loaded \in 0..(Len(Decorated) - 1)
    /\ LET c == Decorated[loaded + 1]
           r == register_conditioning_method(registry, c.name, c.cls)
       IN  /\ registry' = r.d
           /\ registered' = IF r.error = "" THEN registered \cup {<<c.name, c.cls>>}
                            ELSE registered
           /\ loaded' = IF r.error = "" THEN loaded + 1 ELSE -1
           /\ res' = Result("load", c.name, <<c.cls>>, registry[c.name],
                            r.error, NoCtor)
    /\ UNCHANGED <<inst, call, prev, procs>>

\* an implementer registers a constructor after the module has loaded
Register(name, cls) ==
    /\ loaded = Len(Decorated)
    /\ LET r == register_conditioning_method(registry, name, cls)
       IN  /\ registry' = r.d
           /\ registered' = IF r.error = "" THEN registered \cup {<<name, cls>>}
                            ELSE registered
           /\ res' = Result("register", name, <<cls>>, registry[name],
                            r.error, NoCtor)
    /\ UNCHANGED <<loaded, inst, call, prev, procs>>

\* a caller selects a method by name
Get(name, args) ==
    /\ loaded = Len(Decorated)
    /\ LET g == get_conditioning_method(registry, name, args)
       IN  /\ registry' = g.d
           /\ res' = Result("get", name, args, registry[name], g.error, g.ctor)
           /\ inst' = g.ret
    /\ call' = NoCall
    /\ prev' = NoCall
    /\ UNCHANGED <<registered, loaded, procs>>

\* the sampler reaches its next step with the batch (x, t)
Sample(x, t) ==
    /\ inst.cls \in Classes
    /\ call.n < MaxCalls
    /\ call.out # Pending
    /\ prev' = call
    /\ call' = [n |-> call.n + 1, x |-> x, t |-> t, out |-> Pending]
    /\ UNCHANGED <<registry, registered, loaded, res, inst, procs>>

\* the sampler calls the guidance score function on its batch
Invoke ==
    /\ call.out = Pending
    /\ call' = [call EXCEPT !.out = Guidance(inst, call.x, call.t)]
    /\ UNCHANGED <<registry, registered, loaded, res, inst, prev, procs>>

(***************************************************************************)
(* Spec: the module loads, then implementers register and callers get      *)
(* methods and run them on one batch.                                      *)
(***************************************************************************)
RegisterValues == UserCtors \cup { "VJP" }

\* the names implementers register under: a new one and two of the module's
RegisterNames == ExtraNames \cup { DIFFUSION_POSTERIOR_SAMPLING, VJP_GUIDANCE }

\* the list of n positional arguments get is called with for the class bound
GetArgs(cls, n) ==
    LET a == <<[est |-> "id", score |-> "zero"], Eye(Dim), Y, Rat(1, 10),
               IF cls = "PIG" THEN [shape |-> <<Dim, Dim>>, data |-> Eye(Dim)]
               ELSE Shape>>
    IN  SubSeq(a, 1, n)

SpecX == Array([b \in 1..BatchSize |-> SampleVec(1)])
SpecT == Array([b \in 1..BatchSize |-> One])

Next ==
    \/ LoadStep
    \/ \E name \in RegisterNames, cls \in RegisterValues : Register(name, cls)
    \/ \E name \in Names, n \in 3..5 :
          Get(name, GetArgs(DictGet(registry, name), n))
    \/ Sample(SpecX, SpecT)
    \/ Invoke

Spec == Init /\ [][Next]_vars

(***************************************************************************)
(* SpecGuide: on the loaded registry a caller gets one method, and the     *)
(* sampler runs its guidance function on batches.                          *)
(***************************************************************************)
RECURSIVE LoadFrom(_, _)
LoadFrom(d, i) ==
    IF i > Len(Decorated) THEN d
    ELSE LoadFrom(register_conditioning_method(
                      d, Decorated[i].name, Decorated[i].cls).d, i + 1)

InitGuide ==
    /\ registry = LoadFrom(EmptyDict, 1)
    /\ registered = { <<Decorated[i].name, Decorated[i].cls>> :
                        i \in 1..Len(Decorated) }
    /\ loaded = Len(Decorated)
    /\ \E name \in ConditioningMethodName :
         \E args \in ArgSets(registry[name]) :
           LET g == get_conditioning_method(registry, name, args)
           IN  /\ res = Result("get", name, args, registry[name],
                               g.error, g.ctor)
               /\ inst = g.ret
    /\ call = NoCall
    /\ prev = NoCall
    /\ procs = NoProcs

NextGuide ==
    \/ \E x \in XBatches, t \in TBatches : Sample(x, t)
    \/ Invoke

SpecGuide == InitGuide /\ [][NextGuide]_vars

(***************************************************************************)
(* SpecConc: every register call has been made; processes then call        *)
(* get_conditioning_method concurrently, its two reads of the dict         *)
(* interleaved with the other processes' steps, and run the guidance       *)
(* function of the instance they got.                                      *)
(***************************************************************************)
\* the names the processes look up: two of the module's and the extra one
ConcNames == ExtraNames \cup { DIFFUSION_POSTERIOR_SAMPLING, VJP_GUIDANCE }

\* what the implementers' register calls left bound to the extra name
ConcBindings == UserCtors \cup { Absent, "VJP" }

InitConc ==
    /\ \E v \in ConcBindings :
          /\ registry = [LoadFrom(EmptyDict, 1) EXCEPT !["custom_guidance"] = v]
          /\ registered = { <<Decorated[i].name, Decorated[i].cls>> :
                              i \in 1..Len(Decorated) }
                          \cup (IF v = Absent THEN {}
                                ELSE {<<"custom_guidance", v>>})
    /\ loaded = Len(Decorated)
    /\ res = Result("import", "", <<>>, Absent, "", NoCtor)
    /\ inst = NoInst
    /\ call = NoCall
    /\ prev = NoCall
    /\ procs = NoProcs

\* process p enters get_conditioning_method(name, *args)
PCall(p, name, n) ==
    /\ procs[p].pc = "idle"
    /\ procs' = [procs EXCEPT ![p] =
                    [Idle EXCEPT !.pc = "test", !.name = name,
                                 !.args = GetArgs(DictGet(registry, name), n)]]
    /\ UNCHANGED <<registry, registered, loaded, res, inst, call, prev>>

\* process p evaluates the test and raises NameError when it holds
PTest(p) ==
    /\ procs[p].pc = "test"
    /\ procs' = [procs EXCEPT ![p] =
                    IF get_is_none(registry, procs[p].name)
                    THEN [@ EXCEPT !.pc = "done", !.error = NotDefined]
                    ELSE [@ EXCEPT !.pc = "call"]]
    /\ UNCHANGED <<registry, registered, loaded, res, inst, call, prev>>

\* process p reads the dict again and calls the constructor
PConstruct(p) ==
    /\ procs[p].pc = "call"
    /\ LET g == get_call(registry, procs[p].name, procs[p].args)
       IN  /\ registry' = g.d
           /\ procs' = [procs EXCEPT ![p] =
                           [@ EXCEPT !.pc = "done", !.error = g.error,
                                     !.ctor = g.ctor, !.ret = g.ret]]
    /\ UNCHANGED <<registered, loaded, res, inst, call, prev>>

\* process p runs the guidance function of the instance it owns
PGuide(p) ==
    /\ procs[p].pc = "done"
    /\ procs[p].ret.cls \in Classes
    /\ procs' = [procs EXCEPT ![p] =
                    [@ EXCEPT !.pc = "guided",
                              !.out = Guidance(procs[p].ret, SpecX, SpecT)]]
    /\ UNCHANGED <<registry, registered, loaded, res, inst, call, prev>>

\* process p drops what it holds and may call get again
PReturn(p) ==
    /\ procs[p].pc \in {"done", "guided"}
    /\ procs' = [procs EXCEPT ![p] = Idle]
    /\ UNCHANGED <<registry, registered, loaded, res, inst, call, prev>>

NextConc ==
    \E p \in Procs :
        \/ \E name \in ConcNames, n \in 4..5 : PCall(p, name, n)
        \/ PTest(p)
        \/ PConstruct(p)
        \/ PGuide(p)
        \/ PReturn(p)

SpecConc == InitConc /\ [][NextConc]_vars

(***************************************************************************)
(* Properties of the registry, checked under Spec.                         *)
(***************************************************************************)

\* C1 (as claimed): a register call on a name that is already bound raises
\* the duplicate-registration error and leaves the binding as it was,
\* whatever value was bound first.
C1_DuplicateRejected ==
    res.op \in {"load", "register"} /\ res.old # Absent
        => res.error = AlreadyRegistered /\ registry[res.name] = res.old

\* C2 (as claimed): once register(name, ctor) has returned for a constructor
\* ctor, every later get(name, *args) that constructs returns the instance
\* ctor makes of args, whatever was registered or looked up in between.
C2_GetReturnsRegistered ==
    res.op = "get" /\ res.error # TypeError
        => \A p \in registered :
              p[1] = res.name /\ p[2] # PyNone
                 => /\ res.error = ""
                    /\ res.ctor = p[2]
                    /\ inst = New(p[2], res.args)

\* C3: a get call on a name the registry does not hold raises the
\* unknown-method error, calls no constructor and returns no instance.
C3_UnknownMethod ==
    res.op = "get" /\ res.old = Absent
        => res.error = NotDefined /\ res.ctor = NoCtor /\ inst = NoInst

C3_Witness ==
    /\ res.op = "get"
    /\ res.old = Absent
    /\ res.error = NotDefined
    /\ Len(res.args) = 5

\* the variant each method name selects
Variant ==
    [n \in ConditioningMethodName |->
        CASE n = "diffusion_posterior_sampling" -> "DPS"
          [] n = "diffusion_psoterior_sampling_mod" -> "DPSMod"
          [] n = "pseduo_inverse_guidance" -> "PIG"
          [] n = "vjp_guidance" -> "VJP"
          [] n = "vjp_guidance_alt" -> "VJPAlt"
          [] n = "vjp_guidance_mask" -> "VJPMask"
          [] n = "vjp_guidance_diag" -> "VJPDiagonal"
          [] n = "jac_rev_guidance" -> "JacRev"
          [] n = "jac_rev_guidance_diag" -> "JacRevDiagonal"
          [] n = "jac_fwd_guidance" -> "JacFwd"
          [] n = "jac_fwd_guidance_diag" -> "JacFwdDiagonal"]

\* C9: no self-registration of the module raises, and when the module has
\* loaded exactly the 11 method names are bound, each to the constructor of
\* its own variant and no two to the same constructor.
C9_LoadBindsEleven ==
    /\ loaded # -1
    /\ res.op = "load" => res.error = "" /\ res.old = Absent
    /\ loaded = Len(Decorated) /\ res.op = "load"
        => /\ Bound(registry) = ConditioningMethodName
           /\ Cardinality(Bound(registry)) = 11
           /\ \A n \in ConditioningMethodName : registry[n] = Variant[n]
           /\ \A m, n \in Bound(registry) :
                 m # n => registry[m] # registry[n]

C9_Witness ==
    /\ loaded = 11
    /\ res.op = "load"
    /\ res.name = "jac_fwd_guidance_diag"
    /\ registry["jac_fwd_guidance_diag"] = "JacFwdDiagonal"

\* C10: a get call leaves the registry as it was, whether it returns or
\* raises; the registry changes only in a register call that returns; a
\* call of a guidance function changes neither the registry nor the
\* instance.
C10_GetReadOnly ==
    [][ /\ res'.op = "get" => registry' = registry
        /\ registry' # registry
              => res'.op \in {"load", "register"} /\ res'.error = ""
        /\ call' # call /\ call'.out.outcome \notin {"<pending>", "<no call>"}
              => registry' = registry /\ inst' = inst ]_vars

C10_Witness ==
    /\ res.op = "get"
    /\ res.error = ""
    /\ registry["custom_guidance"] # Absent
    /\ call.out.outcome = "ok"
    /\ inst.cls = registry[res.name]

(***************************************************************************)
(* Properties of the guidance functions, checked under SpecGuide.          *)
(***************************************************************************)
\* the guidance call on the current batch has ended
Called == call.out.outcome \notin {"<pending>", "<no call>"}

\* the matrix of the instance's observation model
ObsMatrix(self) ==
    IF self.cls \in {"VJP", "VJPAlt", "VJPDiagonal"} THEN self.H
    ELSE self.observation_map

\* H^T (c H H^T + v I)^-1 (y - H x), sample by sample
ClosedForm(H, c, v, y, x) ==
    Array([b \in 1..Len(x) |->
        MatVec(MT(H),
               Solve(MAdd(MScale(c, MatMul(H, MT(H))), MScale(v, Eye(Len(H)))),
                     VSub(y[b], MatVec(H, x[b]))))])

\* the scenario of C4: H = I, noise_std = 0.1, score 0 and estimate x0 = x
Scenario ==
    /\ inst.cls \in {"VJP", "JacRev"}
    /\ inst.sde = [est |-> "id", score |-> "zero"]
    /\ ObsMatrix(inst) = Eye(Dim)
    /\ inst.noise_std = Rat(1, 10)
    /\ Called

\* C4 (as claimed): in the scenario VJP and JacRev return, for every (x, t),
\* H^T (H H^T + 0.01 I)^-1 (y - H x).
C4_ClosedFormWithoutRatio ==
    Scenario => call.out = Returned(ClosedForm(ObsMatrix(inst), One,
                                               Rat(1, 100), inst.y, call.x))

\* C4 (amended): in the scenario VJP and JacRev return, for every (x, t),
\* H^T (ratio(t[0]) H H^T + 0.01 I)^-1 (y - H x), which is the correction
\* claimed at the times where the SDE's ratio(t[0]) is 1.
C4_ClosedFormWithRatio ==
    Scenario => call.out = Returned(ClosedForm(ObsMatrix(inst),
                                               ratio(call.t[1]),
                                               Rat(1, 100), inst.y, call.x))

C4_Witness ==
    /\ Scenario
    /\ inst.cls = "JacRev"
    /\ ratio(call.t[1]) # One
    /\ call.out.outcome = "ok"
    /\ call.out.gs # ZeroLike(call.x)

\* the four variants the spec requires to agree under the identity map
FullVariants == {"VJP", "VJPAlt", "JacRev", "JacFwd"}

\* what variant c, constructed with the instance's arguments, returns on
\* the current batch
OutcomeOf(c) == Guidance(New(c, res.args), call.x, call.t)

IdentityObservation ==
    /\ inst.cls \in FullVariants
    /\ ObsMatrix(inst) = Eye(Dim)
    /\ Called

\* the Jacobian of the SDE's posterior-mean estimate is symmetric on the batch
SymmetricJacobian ==
    \A b \in 1..BatchSize :
        JacX0(inst.sde, call.t[b]) = MT(JacX0(inst.sde, call.t[b]))

Sign(q) == IF q[1] = 0 THEN 0 ELSE IF (q[1] > 0) = (q[2] > 0) THEN 1 ELSE -1

\* v = a + r sqrt(m) equals c / sqrt(Q), for rationals a, r, c, Q > 0 and an
\* integer m >= 1 free of squares
IsOverRoot(a, r, m, c, Q) ==
    IF m = 1
    THEN LET v == RAdd(a, r)
         IN  RMul(RMul(v, v), Q) = RMul(c, c) /\ Sign(v) = Sign(c)
    ELSE /\ a = Zero
         /\ RMul(RMul(RMul(r, r), Rat(m, 1)), Q) = RMul(c, c)
         /\ Sign(r) = Sign(c)

\* the scale DPS is constructed with: the fourth argument, 0.4 without one
ScaleGiven == IF Len(res.args) >= 4 THEN res.args[4] ELSE Rat(4, 10)

\* C6: DPS returns s - scale * g for every (x, t): s is the score of the
\* SDE's estimate, g = -(H J)^T (y - H x0) / ||y - H x0|| is the gradient of
\* the norm of the innovation over the batch (not a number where the norm
\* is 0), and scale is the construction argument, 0.4 when none is given.
C6_DPSSubtractsScaledGradient ==
    inst.cls = "DPS" /\ Called
        => LET H == inst.observation_map
               x0 == Array([b \in 1..BatchSize |->
                        MatVec(JacX0(inst.sde, call.t[b]), call.x[b])])
               d == Array([b \in 1..BatchSize |->
                        VSub(inst.y[b], MatVec(H, x0[b]))])
               Q == RSum(Array([b \in 1..BatchSize |-> Dot(d[b], d[b])]))
               \* minus the gradient of the norm, times the norm
               c == Array([b \in 1..BatchSize |->
                        MatVec(MT(MatMul(H, JacX0(inst.sde, call.t[b]))), d[b])])
               s == Array([b \in 1..BatchSize |->
                        Score(inst.sde, call.x[b], call.t[b])])
           IN  /\ inst.scale = ScaleGiven
               /\ call.out.outcome = "ok"
               /\ \A b \in 1..BatchSize : \A i \in 1..Dim :
                     IF Q = Zero
                     THEN call.out.gs[b][i] = NonFinite
                     ELSE IsOverRoot(RSub(call.out.gs[b][i], s[b][i]),
                                     call.out.irr[b][i], call.out.rad,
                                     RMul(ScaleGiven, c[b][i]), Q)

C6_Witness ==
    /\ inst.cls = "DPS"
    /\ Len(res.args) = 3
    /\ inst.scale = Rat(2, 5)
    /\ inst.sde.score = "lin"
    /\ call.out.outcome = "ok"
    /\ call.out.rad # 1
    /\ call.out.irr # ZeroLike(call.x)

\* row i of a returned score: its rational part, and its irrational part
\* r sqrt(m) by sign and square
RowOf(out, i) ==
    <<out.gs[i],
      Array([j \in 1..Len(out.irr[i]) |->
          <<Sign(out.irr[i][j]),
            RMul(RMul(out.irr[i][j], out.irr[i][j]), Rat(out.rad, 1))>>])>>

\* C7 (as claimed): two calls of a guidance function on batches that agree
\* on sample i return the same row i, whatever the other samples and their
\* times are, the first sample's time included.
C7_RowDependsOnOwnSample ==
    prev.n > 0 /\ prev.out.outcome = "ok" /\ call.out.outcome = "ok"
        => \A i \in 1..BatchSize :
              prev.x[i] = call.x[i] /\ prev.t[i] = call.t[i]
                 => RowOf(prev.out, i) = RowOf(call.out, i)

\* the variants that solve with a covariance matrix
LinearSolve(self) ==
    \/ self.cls \in FullVariants
    \/ self.cls = "PIG" /\ self.HHT.shape = <<Dim, Dim>>

\* the covariance C_yy of sample b
Cyy(self, t, b) ==
    LET v == MScale(RMul(self.noise_std, self.noise_std), Eye(Dim))
        H == ObsMatrix(self)
        J == JacX0(self.sde, t[b])
    IN  IF self.cls = "PIG"
        THEN MAdd(MScale(r2(t[1], One), self.HHT.data), v)
        ELSE IF self.cls \in {"VJP", "VJPAlt"}
        THEN MAdd(MScale(ratio(t[1]), MatMul(H, MT(MatMul(H, J)))), v)
        ELSE MAdd(MScale(ratio(t[1]), MatMul(MatMul(H, J), MT(H))), v)

SomeSingular ==
    /\ LinearSolve(inst)
    /\ Called
    /\ \E b \in 1..BatchSize : Det(Cyy(inst, call.t, b)) = Zero

\* C8: a call of a linear-solve variant in which the covariance C_yy of
\* some sample is singular ends in the linear-algebra error and returns no
\* corrected score.
C8_SingularSolveRaises ==
    SomeSingular => call.out.outcome = LinAlgError /\ call.out.gs = <<>>

C8_Witness ==
    /\ SomeSingular
    /\ inst.cls = "JacRev"
    /\ call.out.outcome = LinAlgError
    /\ inst.noise_std = Zero
    /\ inst.observation_map = MaskLast(Dim)

(***************************************************************************)
(* Properties of concurrent use, checked under SpecConc.                   *)
(***************************************************************************)
\* what process p's get call returns when it runs alone on the registry
Alone(p) == get_conditioning_method(registry, procs[p].name, procs[p].args)

\* C11: with every register call made before, in every interleaving of the
\* processes' get and guidance calls each get call ends as it does when it
\* runs alone on the populated registry (same error, same constructor, same
\* instance), the guidance call on the instance returns what it returns
\* alone, and no step changes the registry.
C11_ConcurrentGetAsAlone ==
    /\ [](\A p \in Procs :
            /\ procs[p].pc \in {"done", "guided"}
                  => /\ procs[p].error = Alone(p).error
                     /\ procs[p].ctor = Alone(p).ctor
                     /\ procs[p].ret = Alone(p).ret
            /\ procs[p].pc = "guided"
                  => procs[p].out = Guidance(Alone(p).ret, SpecX, SpecT))
    /\ [][registry' = registry]_vars

C11_Witness ==
    /\ procs[1].pc = "guided"
    /\ procs[1].ret.cls = "VJP"
    /\ procs[1].out.outcome = "ok"
    /\ procs[2].pc = "done"
    /\ procs[2].name = procs[1].name
    /\ procs[2].error = NotDefined \/ procs[2].ret.cls = "VJP"
    /\ registry["custom_guidance"] # Absent

(***************************************************************************)
(* Properties of PIG's covariance branches, checked under SpecGuide.       *)
(***************************************************************************)
\* C12 (as claimed): for every HHT given at construction each call of PIG's
\* guidance function takes one covariance branch before the back-projection:
\* the solve with C_yy = r2(t[0], 1.0) HHT + noise_std^2 I when HHT has shape
\* (d_y, d_y), the division by r2(t[0], 1.0) HHT + noise_std^2 when HHT has
\* shape (1,); the back-projection never runs with the solved innovation
\* undefined.
C12_PIGTakesOneBranch ==
    inst.cls = "PIG" /\ Called
        => LET H == inst.observation_map
               d_y == Len(inst.y[1])
               v == RMul(inst.noise_std, inst.noise_std)
               c == r2(call.t[1], One)
               d(b) == VSub(inst.y[b],
                            MatVec(MatMul(H, JacX0(inst.sde, call.t[b])), call.x[b]))
               back(b, f) ==
                   VAdd(Score(inst.sde, call.x[b], call.t[b]),
                        MatVec(MT(MatMul(H, JacX0(inst.sde, call.t[b]))), f))
           IN  /\ call.out.outcome # UnboundLocalError
               /\ \/ /\ inst.HHT.shape = <<d_y, d_y>>
                     /\ LET C == MAdd(MScale(c, inst.HHT.data), MScale(v, Eye(d_y)))
                        IN  IF Det(C) = Zero
                            THEN call.out = Raised(LinAlgError)
                            ELSE call.out = Returned(Array(
                                     [b \in 1..BatchSize |-> back(b, Solve(C, d(b)))]))
                  \/ /\ inst.HHT.shape = <<1>>
                     /\ LET C == RAdd(RMul(c, inst.HHT.data[1]), v)
                        IN  call.out = Returned(Array(
                                [b \in 1..BatchSize |->
                                    back(b, VScale(RDiv(One, C), d(b)))]))
====
